---- MODULE Spec2Model ----
(***************************************************************************)
(* Model of the WebLLM chat kernel and its Module Federation container     *)
(* (src/src/ChatHttpKernel.ts, section "src/federation.ts", lines 333-826, *)
(* with the catalog of src/src/models.ts).                                 *)
(*                                                                         *)
(* Texts (magic results, error messages, stream texts) are sequences of    *)
(* string pieces: the literal segments and the interpolated values of the  *)
(* template literal that builds them, in order.  Submitted code is a       *)
(* sequence of tokens: each token is one whitespace character or one       *)
(* maximal run of non-whitespace characters.                               *)
(***************************************************************************)
EXTENDS Integers, Sequences, FiniteSets, TLC

VARIABLES
    chat,                  \* WebLLMChatKernel fields: modelName, model, initialized
    handles,               \* number of webLLM(...) handles constructed so far
    settingsDefaultModel,  \* module-level settings default (null when unset)
    settingsConnected,     \* updateSettings is connected to settings.changed
    defaultModelSetting,   \* settings.get("defaultModel").composite as last read
    plugin,                \* activation state of the plugin descriptor
    shutdowns,             \* shutdownRequest has been answered on the session
    lastReply,             \* the latest request other than execute, with its reply
    req,                   \* per request slot: position and observable effects
    sharedScope,           \* module-level shared scope (null until init/fallback)
    globalScope,           \* window.__webpack_share_scopes__.default
    lastInit,              \* the argument of the latest init call (none: NoScope)
    thunk                  \* position and outcome of the thunk returned by get()

vars == <<chat, handles, settingsDefaultModel, settingsConnected,
          defaultModelSetting, plugin,
          shutdowns, lastReply, req, sharedScope, globalScope, lastInit, thunk>>

kernelVars == <<chat, handles, shutdowns, lastReply, req>>
fedVars == <<sharedScope, globalScope, lastInit, thunk>>
settingsVars ==
    <<settingsDefaultModel, settingsConnected, defaultModelSetting, plugin>>

(***************************************************************************)
(* Bounds                                                                  *)
(***************************************************************************)
MaxFrags == 2      \* fragments one model stream yields at most
MaxWords == 4      \* words in one code of the interpreter's input space at most
MaxCursor == 3     \* cursor positions of a completeRequest run from 0 to this
MaxHandles == 3    \* handles constructed in one behaviour at most

(***************************************************************************)
(* models.ts                                                               *)
(***************************************************************************)
WEBLLM_MODELS ==
    << "SmolLM2-360M-Instruct-q4f16_1-MLC",
       "TinyLlama-1.1B-Chat-v1.0-q4f16_1-MLC-1k",
       "Llama-3.2-3B-Instruct-q4f16_1-MLC",
       "Mistral-7B-Instruct-v0.3-q4f16_1-MLC" >>

DEFAULT_WEBLLM_MODEL == "Llama-3.2-3B-Instruct-q4f16_1-MLC"

\* imported from ./models.js at line 338; its body is not part of the sources
isValidWebLLMModel(m) == \E i \in DOMAIN WEBLLM_MODELS : WEBLLM_MODELS[i] = m

(***************************************************************************)
(* Values                                                                  *)
(***************************************************************************)
Null == "null"
NoHandle == [name |-> Null, id |-> 0]

\* webLLM(modelName, {...}): the k-th handle constructed, bound to modelName
webLLM(modelName, k) == [name |-> modelName, id |-> k]

\* thrown values: an Error carrying a message, or a thrown non-Error value
Error(msg) == [kind |-> "Error", message |-> msg]
ThrownNull == [kind |-> "null", message |-> <<>>]
NoError == [kind |-> "none", message |-> <<>>]

\* failures of the external model runtime (availability, download, stream)
ExternalFailures == { Error(<<"runtime failure">>), ThrownNull }
\* failure of the handle constructor webLLM(...)
CtorFailure == Error(<<"webLLM construction failed">>)

RECURSIVE ConcatAll(_)
ConcatAll(s) == IF s = <<>> THEN "" ELSE Head(s) \o ConcatAll(Tail(s))

Contains(text, piece) == \E i \in DOMAIN text : text[i] = piece

(***************************************************************************)
(* Module-level settings default                                           *)
(***************************************************************************)
getDefaultModel ==
    IF settingsDefaultModel # Null THEN settingsDefaultModel
                                   ELSE DEFAULT_WEBLLM_MODEL

(***************************************************************************)
(* WebLLMChatKernel.  The methods are operators on the object's fields c;  *)
(* k numbers the handle a successful webLLM(...) call constructs and       *)
(* ctorOk says whether that call returns (TRUE) or throws (FALSE).         *)
(***************************************************************************)
NewChat == [modelName |-> Null, model |-> NoHandle, initialized |-> FALSE]

\* initializeModel, with the initialized flag left for a later turn
initializeModelFlagLater(c, modelName, k, ctorOk) ==
    IF ~isValidWebLLMModel(modelName)
    THEN [chat |-> c,
          err |-> Error(<<"Invalid model: ", modelName,
                          ". Use %ai model to see available models.">>)]
    ELSE IF ~ctorOk
    THEN [chat |-> [c EXCEPT !.modelName = modelName], err |-> CtorFailure]
    ELSE [chat |-> [modelName |-> modelName, model |-> webLLM(modelName, k),
                    initialized |-> c.initialized],
          err |-> NoError]

initializeModel(c, modelName, k, ctorOk) ==
    IF ~isValidWebLLMModel(modelName)
    THEN [chat |-> c,
          err  |-> Error(<<"Invalid model: ", modelName,
                           ". Use %ai model to see available models.">>)]
    ELSE IF ~ctorOk
    THEN [chat |-> [c EXCEPT !.modelName = modelName], err |-> CtorFailure]
    ELSE [chat |-> [modelName |-> modelName,
                    model |-> webLLM(modelName, k),
                    initialized |-> TRUE],
          err  |-> NoError]

\* setModel, with the name stored before it is validated
setModelStoresFirst(c, modelName, k, ctorOk) ==
    IF ~isValidWebLLMModel(modelName)
    THEN [chat |-> [c EXCEPT !.modelName = modelName], ret |-> <<>>,
          err |-> Error(<<"Invalid model: ", modelName>>)]
    ELSE LET wasInitialized == c.initialized
             init == initializeModel(c, modelName, k, ctorOk)
         IN  IF init.err # NoError
             THEN [chat |-> init.chat, ret |-> <<>>, err |-> init.err]
             ELSE [chat |-> init.chat, err |-> NoError,
                   ret |-> IF wasInitialized
                           THEN <<"Model ", "changed", " to: ", modelName>>
                           ELSE <<"Model ", "set", " to: ", modelName>>]

\* setModel, with the two confirmations exchanged
setModelSwapped(c, modelName, k, ctorOk) ==
    IF ~isValidWebLLMModel(modelName)
    THEN [chat |-> c, ret |-> <<>>,
          err |-> Error(<<"Invalid model: ", modelName>>)]
    ELSE LET wasInitialized == c.initialized
             init == initializeModel(c, modelName, k, ctorOk)
         IN  IF init.err # NoError
             THEN [chat |-> init.chat, ret |-> <<>>, err |-> init.err]
             ELSE [chat |-> init.chat, err |-> NoError,
                   ret |-> IF wasInitialized
                           THEN <<"Model ", "set", " to: ", modelName>>
                           ELSE <<"Model ", "changed", " to: ", modelName>>]

\* setModel, with the initialized flag read after initializeModel has run
setModelReadsFlagLate(c, modelName, k, ctorOk) ==
    IF ~isValidWebLLMModel(modelName)
    THEN [chat |-> c, ret |-> <<>>,
          err |-> Error(<<"Invalid model: ", modelName>>)]
    ELSE LET init == initializeModel(c, modelName, k, ctorOk)
             wasInitialized == init.chat.initialized
         IN  IF init.err # NoError
             THEN [chat |-> init.chat, ret |-> <<>>, err |-> init.err]
             ELSE [chat |-> init.chat, err |-> NoError,
                   ret |-> IF wasInitialized
                           THEN <<"Model ", "changed", " to: ", modelName>>
                           ELSE <<"Model ", "set", " to: ", modelName>>]

\* setModel, keeping the handle when modelName already is the current model
setModelKeepsCurrent(c, modelName, k, ctorOk) ==
    IF ~isValidWebLLMModel(modelName)
    THEN [chat |-> c, ret |-> <<>>,
          err |-> Error(<<"Invalid model: ", modelName>>)]
    ELSE LET wasInitialized == c.initialized
             init == IF c.initialized /\ c.modelName = modelName
                     THEN [chat |-> c, err |-> NoError]
                     ELSE initializeModel(c, modelName, k, ctorOk)
         IN  IF init.err # NoError
             THEN [chat |-> init.chat, ret |-> <<>>, err |-> init.err]
             ELSE [chat |-> init.chat, err |-> NoError,
                   ret |-> IF wasInitialized
                           THEN <<"Model ", "changed", " to: ", modelName>>
                           ELSE <<"Model ", "set", " to: ", modelName>>]

setModel(c, modelName, k, ctorOk) ==
    IF ~isValidWebLLMModel(modelName)
    THEN [chat |-> c, ret |-> <<>>,
          err |-> Error(<<"Invalid model: ", modelName>>)]
    ELSE LET wasInitialized == c.initialized
             init == initializeModel(c, modelName, k, ctorOk)
         IN  IF init.err # NoError
             THEN [chat |-> init.chat, ret |-> <<>>, err |-> init.err]
             ELSE [chat |-> init.chat, err |-> NoError,
                   ret |-> IF wasInitialized
                           THEN <<"Model ", "changed", " to: ", modelName>>
                           ELSE <<"Model ", "set", " to: ", modelName>>]

getModelName(c) == c.modelName

isInitialized(c) == c.initialized

\* needsInit, true on every send
needsInitAlways(c) == TRUE

\* the synchronous head of send(): lazy initialization with the settings default
needsInit(c) == ~c.initialized \/ c.model = NoHandle

sendInit(c, k, ctorOk) ==
    IF needsInit(c)
    THEN initializeModel(c, getDefaultModel, k, ctorOk)
    ELSE [chat |-> c, err |-> NoError]

(***************************************************************************)
(* WebLLMLiteKernel.handleMagic                                            *)
(***************************************************************************)
Whitespace == {" ", "\t", "\n"}
IsWs(t) == t \in Whitespace

\* String.prototype.trim on the token sequence
RECURSIVE trimStart(_)
trimStart(code) ==
    IF code # <<>> /\ IsWs(Head(code)) THEN trimStart(Tail(code)) ELSE code

RECURSIVE trimEnd(_)
trimEnd(code) ==
    IF code # <<>> /\ IsWs(code[Len(code)])
    THEN trimEnd(SubSeq(code, 1, Len(code) - 1))
    ELSE code

\* trim, stripping leading whitespace only
trimStartOnly(code) == trimStart(code)

trim(code) == trimEnd(trimStart(code))

\* the match, with anything allowed between "model" and the last token
modelMatchLoose(trimmed) ==
    LET n == Len(trimmed)
    IN  IF /\ n >= 5
           /\ trimmed[1] = "%ai"
           /\ ~IsWs(trimmed[n])
           /\ IsWs(trimmed[n - 1])
           /\ \E i \in 3..(n - 2) :
                /\ trimmed[i] = "model"
                /\ \A j \in 2..(i - 1) : IsWs(trimmed[j])
                /\ IsWs(trimmed[i + 1])
        THEN trimmed[n]
        ELSE Null

\* trimmed.match(/^%ai\s+model\s+(\S+)$/): the captured token, or Null
modelMatch(trimmed) ==
    LET n == Len(trimmed)
    IN  IF /\ n >= 5
           /\ trimmed[1] = "%ai"
           /\ ~IsWs(trimmed[n])
           /\ \E i \in 3..(n - 2) :
                /\ trimmed[i] = "model"
                /\ \A j \in 2..(i - 1) : IsWs(trimmed[j])
                /\ \A j \in (i + 1)..(n - 1) : IsWs(trimmed[j])
        THEN trimmed[n]
        ELSE Null

ListLimit == 20

\* WEBLLM_MODELS.slice(0, 20).join("\n  ")
RECURSIVE join(_, _)
join(names, sep) ==
    IF names = <<>> THEN <<>>
    ELSE IF Len(names) = 1 THEN <<names[1]>>
    ELSE <<names[1], sep>> \o join(Tail(names), sep)

slice(names, n) == SubSeq(names, 1, IF Len(names) < n THEN Len(names) ELSE n)

\* statusLine, deciding by the stored name instead of the initialized flag
statusLineByName(c) ==
    IF getModelName(c) # Null
    THEN <<"Current model: ", getModelName(c)>>
    ELSE <<"Model ", "not yet initialized", ". Default: ", getDefaultModel>>

statusLine(c) ==
    IF isInitialized(c)
    THEN <<"Current model: ", getModelName(c)>>
    ELSE <<"Model ", "not yet initialized", ". Default: ", getDefaultModel>>

modelListing(c) ==
    statusLine(c)
      \o <<"\n\nAvailable models (showing first 20 of ",
           ToString(Len(WEBLLM_MODELS)), "):\n  ">>
      \o join(slice(WEBLLM_MODELS, ListLimit), "\n  ")
      \o <<"\n  ", "...", "\n\nUse \"%ai model <name>\" to switch models.">>

helpText ==
    <<"WebLLM Chat Kernel Magic Commands:\n\n",
      "  %ai model          - Show current model and list available models\n",
      "  %ai model <name>   - Switch to a different model\n",
      "  %ai help           - Show this help message\n\n",
      "The model is initialized on first cell execution using the default from Settings.\n",
      "After initialization, use \"%ai model <name>\" to switch models.">>

ListHint == "\n\nUse \"%ai model\" to see available models."

\* kind "result": the response text; "none": null (not a magic); "throw": err
handleMagic(c, code, k, ctorOk) ==
    LET trimmed == trim(code)
        name == modelMatch(trimmed)
    IN  IF trimmed = <<"%ai", " ", "model">> \/ trimmed = <<"%ai", " ", "models">>
        THEN [kind |-> "result", chat |-> c, text |-> modelListing(c), err |-> NoError]
        ELSE IF name # Null
        THEN LET s == setModel(c, name, k, ctorOk)
             IN  IF s.err # NoError
                 THEN [kind |-> "throw", chat |-> s.chat, text |-> <<>>,
                       err |-> Error(s.err.message \o <<ListHint>>)]
                 ELSE [kind |-> "result", chat |-> s.chat, text |-> s.ret,
                       err |-> NoError]
        ELSE IF trimmed = <<"%ai">> \/ trimmed = <<"%ai", " ", "help">>
        THEN [kind |-> "result", chat |-> c, text |-> helpText, err |-> NoError]
        ELSE [kind |-> "none", chat |-> c, text |-> <<>>, err |-> NoError]

\* handleMagic reaches webLLM(...) exactly for "%ai model <catalog name>"
magicConstructs(code) ==
    LET name == modelMatch(trim(code))
    IN  name # Null /\ isValidWebLLMModel(name)

(***************************************************************************)
(* Inputs                                                                  *)
(***************************************************************************)
\* the host runs one executeRequest at a time on a session
Slots == {1}

OtherModel == "SmolLM2-360M-Instruct-q4f16_1-MLC"
UnknownModel == "C"

MagicCodes ==
    { <<"%ai">>,
      <<"%ai", " ", "help">>,
      <<"%ai", " ", "model">>,
      <<"%ai", " ", "models">>,
      <<" ", "%ai", " ", "help", "\n">>,
      <<"\n", "%ai", " ", "model", " ">>,
      <<"%ai", " ", "model", " ", DEFAULT_WEBLLM_MODEL>>,
      <<"%ai", " ", "model", " ", OtherModel>>,
      <<"%ai", "\t", "model", " ", " ", OtherModel, "\n">>,
      <<"%ai", " ", "model", " ", UnknownModel>> }

PromptCodes ==
    { <<>>,
      <<"hello">>,
      <<"%ai", " ", " ", "model">> }

Codes == MagicCodes \cup PromptCodes

Fragments == {"He", ""}

Availabilities == {"unavailable", "downloadable", "downloading", "available"}

(***************************************************************************)
(* Requests.  A slot holds one executeRequest call: where it is suspended  *)
(* (pc), and what it has done so far.                                      *)
(*   out      events published for the request, in order                  *)
(*   send     "none" (send not called), "pending", "resolved", "rejected"  *)
(*   chunks   the arguments of the onChunk calls, in order                *)
(*   yielded  the fragments the model stream has yielded, in order        *)
(*   calls    the calls made on the model handle, in order                *)
(*   thrown   the value caught by executeRequest's catch                  *)
(***************************************************************************)
NoResult == [status |-> "none"]

IdleReq ==
    [pc |-> "idle", code |-> <<>>, out |-> <<>>, send |-> "none",
     sendValue |-> "", chunks |-> <<>>, yielded |-> <<>>, reply |-> "",
     calls |-> <<>>, availability |-> "", lazyInit |-> FALSE,
     thrown |-> NoError, result |-> NoResult]

StreamEvent(text) == [type |-> "stream", name |-> "stdout", text |-> text]

ErrorEvent(message) ==
    [type |-> "error", ename |-> "Error", evalue |-> message, traceback |-> <<>>]

OkResult == [status |-> "ok", payload |-> <<>>, user_expressions |-> <<>>]

ErrorResult(message) ==
    [status |-> "error", ename |-> "Error", evalue |-> message, traceback |-> <<>>]

\* err?.message ?? String(err)
errMessage(err) == IF err.kind = "Error" THEN err.message ELSE <<"null">>

\* catchError, with the result built from the thrown value's name
catchErrorNamed(q, err) ==
    [q EXCEPT !.pc = "done",
              !.thrown = err,
              !.out = Append(q.out, ErrorEvent(errMessage(err))),
              !.result = [status |-> "error", ename |-> err.kind,
                          evalue |-> errMessage(err), traceback |-> <<>>]]

\* executeRequest's catch block, applied to the request record q
catchError(q, err) ==
    [q EXCEPT !.pc = "done",
              !.thrown = err,
              !.out = Append(q.out, ErrorEvent(errMessage(err))),
              !.result = ErrorResult(errMessage(err))]

\* send() throwing: the promise rejects, then the catch block runs
sendRejects(q, err) == catchError([q EXCEPT !.send = "rejected"], err)

Call(op, handle) == [op |-> op, handle |-> handle]

\* the callback, with the newest stream event put before the earlier ones
onChunkNewestFirst(q, chunk) ==
    [q EXCEPT !.chunks = Append(q.chunks, chunk),
              !.out = <<StreamEvent(<<chunk>>)>> \o q.out]

\* the per-fragment callback executeRequest hands to send
onChunk(q, chunk) ==
    [q EXCEPT !.chunks = Append(q.chunks, chunk),
              !.out = Append(q.out, StreamEvent(<<chunk>>))]

\* consume, with the callback skipped for a falsy (empty) fragment
consumeSkipsEmpty(q, chunk) ==
    IF chunk = ""
    THEN [q EXCEPT !.reply = q.reply \o chunk,
                   !.yielded = Append(q.yielded, chunk)]
    ELSE onChunk([q EXCEPT !.reply = q.reply \o chunk,
                           !.yielded = Append(q.yielded, chunk)], chunk)

\* one iteration of the for-await loop of send
consume(q, chunk) ==
    onChunk([q EXCEPT !.reply = q.reply \o chunk,
                      !.yielded = Append(q.yielded, chunk)], chunk)

\* the stream ended: send returns reply and executeRequest returns ok
sendReturns(q) ==
    [q EXCEPT !.pc = "done", !.send = "resolved", !.sendValue = q.reply,
              !.result = OkResult]

\* streamText({model: this.model!, ...}) and the start of the loop
startStream(q, c, streamErr) ==
    LET q1 == [q EXCEPT !.calls = Append(q.calls, Call("streamText", c.model))]
    IN  IF streamErr # NoError THEN sendRejects(q1, streamErr)
        ELSE [q1 EXCEPT !.pc = "stream"]

(***************************************************************************)
(* executeRequest up to its first suspension: the magic interpreter, and   *)
(* for a prompt the head of send() up to `await this.model!.availability()`*)
(***************************************************************************)
executeHead(c, code, k, ctorOk) ==
    LET q0 == [IdleReq EXCEPT !.code = code]
        m == handleMagic(c, code, k, ctorOk)
    IN  IF m.kind = "result"
        THEN [chat |-> m.chat,
              req |-> [q0 EXCEPT !.pc = "done",
                                 !.out = <<StreamEvent(m.text \o <<"\n">>)>>,
                                 !.result = OkResult]]
        ELSE IF m.kind = "throw"
        THEN [chat |-> m.chat, req |-> catchError(q0, m.err)]
        ELSE LET i == sendInit(c, k, ctorOk)
                 q1 == [q0 EXCEPT !.send = "pending", !.lazyInit = needsInit(c)]
             IN  IF i.err # NoError
                 THEN [chat |-> i.chat, req |-> sendRejects(q1, i.err)]
                 ELSE [chat |-> i.chat,
                       req |-> [q1 EXCEPT !.pc = "availability",
                                          !.calls = <<Call("availability", i.chat.model)>>]]

\* the call reaches webLLM(...)
constructs(c, code) ==
    \/ magicConstructs(code)
    \/ handleMagic(c, code, 0, TRUE).kind = "none" /\ needsInit(c)

ExecuteRequest(r, code, ctorOk) ==
    /\ plugin = "registered"
    /\ req[r].pc \in {"idle", "done"}
    /\ LET builds == constructs(chat, code)
           h == executeHead(chat, code, handles + 1, ctorOk)
       IN  /\ builds => handles < MaxHandles
           /\ ~builds => ctorOk
           /\ chat' = h.chat
           /\ req' = [req EXCEPT ![r] = h.req]
           /\ handles' = IF builds /\ ctorOk THEN handles + 1 ELSE handles
    /\ UNCHANGED <<shutdowns, lastReply, settingsVars, fedVars>>

\* the availability step, with the download started before the
\* "unavailable" answer is looked at
AvailabilityResolvesDownloadsFirst(r, availability, streamErr) ==
    /\ req[r].pc = "availability"
    /\ LET q == [req[r] EXCEPT !.availability = availability]
           d == [q EXCEPT !.calls = Append(q.calls,
                              Call("createSessionWithProgress", chat.model))]
       IN  req' = [req EXCEPT ![r] =
              IF availability = "unavailable"
              THEN sendRejects(d, Error(<<"Browser does not support WebLLM / WebGPU.">>))
              ELSE IF availability \in {"downloadable", "downloading"}
              THEN [d EXCEPT !.pc = "download"]
              ELSE startStream(q, chat, streamErr)]
    /\ availability \in {"unavailable", "downloadable", "downloading"}
          => streamErr = NoError
    /\ UNCHANGED <<chat, handles, shutdowns, lastReply, settingsVars, fedVars>>

\* the availability step, downloading for "downloadable" only
AvailabilityResolvesSkipsDownloading(r, availability, streamErr) ==
    /\ req[r].pc = "availability"
    /\ LET q == [req[r] EXCEPT !.availability = availability]
       IN  req' = [req EXCEPT ![r] =
              IF availability = "unavailable"
              THEN sendRejects(q, Error(<<"Browser does not support WebLLM / WebGPU.">>))
              ELSE IF availability = "downloadable"
              THEN [q EXCEPT !.pc = "download",
                             !.calls = Append(q.calls,
                                 Call("createSessionWithProgress", chat.model))]
              ELSE startStream(q, chat, streamErr)]
    /\ availability \in {"unavailable", "downloadable"}
          => streamErr = NoError
    /\ UNCHANGED <<chat, handles, shutdowns, lastReply, settingsVars, fedVars>>

\* `await this.model!.availability()` settles
AvailabilityResolves(r, availability, streamErr) ==
    /\ req[r].pc = "availability"
    /\ LET q == [req[r] EXCEPT !.availability = availability]
       IN  req' = [req EXCEPT ![r] =
              IF availability = "unavailable"
              THEN sendRejects(q, Error(<<"Browser does not support WebLLM / WebGPU.">>))
              ELSE IF availability \in {"downloadable", "downloading"}
              THEN [q EXCEPT !.pc = "download",
                             !.calls = Append(q.calls,
                                 Call("createSessionWithProgress", chat.model))]
              ELSE startStream(q, chat, streamErr)]
    /\ availability \in {"unavailable", "downloadable", "downloading"}
          => streamErr = NoError
    /\ UNCHANGED <<chat, handles, shutdowns, lastReply, settingsVars, fedVars>>

AvailabilityRejects(r, err) ==
    /\ req[r].pc = "availability"
    /\ req' = [req EXCEPT ![r] = sendRejects(req[r], err)]
    /\ UNCHANGED <<chat, handles, shutdowns, lastReply, settingsVars, fedVars>>

\* `await this.model!.createSessionWithProgress(...)` settles
DownloadResolves(r, streamErr) ==
    /\ req[r].pc = "download"
    /\ req' = [req EXCEPT ![r] = startStream(req[r], chat, streamErr)]
    /\ UNCHANGED <<chat, handles, shutdowns, lastReply, settingsVars, fedVars>>

\* a failed download, answered by querying availability again
DownloadRejectsRetries(r, err) ==
    /\ req[r].pc = "download"
    /\ req' = [req EXCEPT ![r] =
                 [req[r] EXCEPT !.pc = "availability", !.availability = "",
                                !.calls = <<Call("availability", chat.model)>>]]
    /\ UNCHANGED <<chat, handles, shutdowns, lastReply, settingsVars, fedVars>>

DownloadRejects(r, err) ==
    /\ req[r].pc = "download"
    /\ req' = [req EXCEPT ![r] = sendRejects(req[r], err)]
    /\ UNCHANGED <<chat, handles, shutdowns, lastReply, settingsVars, fedVars>>

\* the text stream yields a fragment
StreamYields(r, chunk) ==
    /\ req[r].pc = "stream"
    /\ Len(req[r].yielded) < MaxFrags
    /\ req' = [req EXCEPT ![r] = consume(req[r], chunk)]
    /\ UNCHANGED <<chat, handles, shutdowns, lastReply, settingsVars, fedVars>>

StreamEnds(r) ==
    /\ req[r].pc = "stream"
    /\ req' = [req EXCEPT ![r] = sendReturns(req[r])]
    /\ UNCHANGED <<chat, handles, shutdowns, lastReply, settingsVars, fedVars>>

StreamFails(r, err) ==
    /\ req[r].pc = "stream"
    /\ req' = [req EXCEPT ![r] = sendRejects(req[r], err)]
    /\ UNCHANGED <<chat, handles, shutdowns, lastReply, settingsVars, fedVars>>

(***************************************************************************)
(* The other requests of the protocol.  Each handler returns a constant    *)
(* reply (completeRequest echoes the cursor position) and assigns nothing. *)
(***************************************************************************)
NoReply == [request |-> "none", reply |-> [status |-> "none"]]
Void == [status |-> "undefined"]

kernelInfoRequest ==
    [status |-> "ok", protocol_version |-> "5.3",
     implementation |-> "webllm-lite-kernel", implementation_version |-> "0.1.0",
     language_info |-> [name |-> "markdown", version |-> "0.0.0",
                        mimetype |-> "text/markdown", file_extension |-> ".md"],
     banner |-> "WebLLM-backed browser chat kernel", help_links |-> <<>>]

\* content.cursor_pos ?? 0
cursorOf(content) ==
    IF "cursor_pos" \in DOMAIN content THEN content.cursor_pos ELSE 0

completeRequest(content) ==
    [status |-> "ok", matches |-> <<>>, cursor_start |-> cursorOf(content),
     cursor_end |-> cursorOf(content), metadata |-> <<>>]

inspectRequest == [status |-> "ok", found |-> FALSE, data |-> <<>>, metadata |-> <<>>]
isCompleteRequest == [status |-> "complete", indent |-> ""]
commInfoRequest == [status |-> "ok", comms |-> <<>>]
historyRequest == [status |-> "ok", history |-> <<>>]
shutdownRequest == [status |-> "ok", restart |-> FALSE]

VoidRequests == {"inputReply", "commOpen", "commMsg", "commClose"}
FixedRequests ==
    {"kernelInfoRequest", "inspectRequest", "isCompleteRequest",
     "commInfoRequest", "historyRequest"} \cup VoidRequests

\* a content without cursor_pos, and the contents that carry one
EmptyContent == [detail_level |-> 0]
Contents == {EmptyContent} \cup {[cursor_pos |-> p] : p \in 0..MaxCursor}

handle(request, content) ==
    CASE request = "kernelInfoRequest" -> kernelInfoRequest
      [] request = "completeRequest" -> completeRequest(content)
      [] request = "inspectRequest" -> inspectRequest
      [] request = "isCompleteRequest" -> isCompleteRequest
      [] request = "commInfoRequest" -> commInfoRequest
      [] request = "historyRequest" -> historyRequest
      [] OTHER -> Void

\* a request other than execute and shutdown is answered
ProtocolRequest(request, content) ==
    /\ plugin = "registered"
    /\ request # "completeRequest" => content = EmptyContent
    /\ lastReply' = [request |-> request, reply |-> handle(request, content)]
    /\ UNCHANGED <<chat, handles, shutdowns, req, settingsVars, fedVars>>

\* shutdownRequest, releasing the model handle
ShutdownRequestReleases ==
    /\ plugin = "registered"
    /\ ~shutdowns
    /\ shutdowns' = TRUE
    /\ lastReply' = [request |-> "shutdownRequest", reply |-> shutdownRequest]
    /\ chat' = [chat EXCEPT !.model = NoHandle, !.initialized = FALSE]
    /\ UNCHANGED <<handles, req, settingsVars, fedVars>>

ShutdownRequest ==
    /\ plugin = "registered"
    /\ ~shutdowns
    /\ shutdowns' = TRUE
    /\ lastReply' = [request |-> "shutdownRequest", reply |-> shutdownRequest]
    /\ UNCHANGED <<chat, handles, req, settingsVars, fedVars>>

(***************************************************************************)
(* Settings bridge and plugin activation                                   *)
(***************************************************************************)
SettingValues == {DEFAULT_WEBLLM_MODEL, OtherModel, UnknownModel, ""}

\* updateSettings, storing any non-empty value
updateSettingsUnchecked(current, model) ==
    IF model # "" THEN model ELSE current

\* updateSettings with settings.get("defaultModel").composite = model
updateSettings(current, model) ==
    IF model # "" /\ isValidWebLLMModel(model) THEN model ELSE current

\* activate, giving up when the settings were not loaded
ActivateNeedsSettings(supplied, loadOk, model, kernelspecs) ==
    /\ plugin = "loaded"
    /\ supplied => thunk.optional # <<>>
    /\ ~supplied => loadOk /\ model = ""
    /\ ~loadOk => model = ""
    /\ IF supplied /\ loadOk
       THEN /\ settingsDefaultModel' = updateSettings(settingsDefaultModel, model)
            /\ defaultModelSetting' = model
            /\ settingsConnected' = TRUE
       ELSE UNCHANGED <<settingsDefaultModel, settingsConnected,
                        defaultModelSetting>>
    /\ plugin' = CASE ~(supplied /\ loadOk) -> "notRegistered"
                   [] kernelspecs = "missing" -> "notRegistered"
                   [] kernelspecs = "throws" -> "registrationError"
                   [] OTHER -> "registered"
    /\ UNCHANGED <<kernelVars, fedVars>>

\* activate(app, kernelspecs, settingRegistry?)
\*   supplied    a settingRegistry argument is passed
\*   loadOk      settingRegistry.load(...) resolves
\*   model       the defaultModel setting at load time
\*   kernelspecs "ok", "missing" (no register function) or "throws"
Activate(supplied, loadOk, model, kernelspecs) ==
    /\ plugin = "loaded"
    /\ supplied => thunk.optional # <<>>
    /\ ~supplied => loadOk /\ model = ""
    /\ ~loadOk => model = ""
    /\ IF supplied /\ loadOk
       THEN /\ settingsDefaultModel' = updateSettings(settingsDefaultModel, model)
            /\ defaultModelSetting' = model
            /\ settingsConnected' = TRUE
       ELSE UNCHANGED <<settingsDefaultModel, settingsConnected,
                        defaultModelSetting>>
    /\ plugin' = CASE kernelspecs = "missing" -> "notRegistered"
                   [] kernelspecs = "throws" -> "registrationError"
                   [] OTHER -> "registered"
    /\ UNCHANGED <<kernelVars, fedVars>>

\* settings.changed fires: the connected updateSettings runs
SettingsChanged(model) ==
    /\ settingsConnected
    /\ model # defaultModelSetting
    /\ settingsDefaultModel' = updateSettings(settingsDefaultModel, model)
    /\ defaultModelSetting' = model
    /\ UNCHANGED <<settingsConnected, plugin, kernelVars, fedVars>>

(***************************************************************************)
(* Shared scope.  A registry maps the package names it holds to the        *)
(* sequence of their versions in enumeration order (Object.keys); a        *)
(* version holds `get`.  Values are tagged: an object, undefined, a        *)
(* function (with what it returns), a promise (with what it settles to).   *)
(***************************************************************************)
Obj(id) == [kind |-> "obj", of |-> id]
Undefined == [kind |-> "undefined", of |-> ""]
Fn(v) == [kind |-> "fn", of |-> v]
Promise(v) == [kind |-> "promise", of |-> v]
Rejected == [kind |-> "rejected", of |-> ""]

Factory(v) == [get |-> [kind |-> "function", returns |-> v]]
NotAFactory == [get |-> [kind |-> "undefined", returns |-> Undefined]]

KernelPkg == "@jupyterlite/kernel"
SettingsPkg == "@jupyterlab/settingregistry"
RequiredPkgs ==
    << KernelPkg, "@lumino/widgets", "@jupyterlab/apputils", "react",
       "@jupyterlab/ui-components" >>
AllPkgs == {RequiredPkgs[i] : i \in DOMAIN RequiredPkgs} \cup {SettingsPkg}

\* the exports of package pkg
Exports(pkg) == Obj(pkg)

FullRegistry == [pkg \in AllPkgs |-> <<Factory(Exports(pkg))>>]

Without(reg, pkg) == [p \in (DOMAIN reg) \ {pkg} |-> reg[p]]
With(reg, pkg, versions) == [reg EXCEPT ![pkg] = versions]

VersionLists(pkg) ==
    { <<>>,
      <<NotAFactory>>,
      <<Factory(Fn(Exports(pkg)))>>,
      <<Factory(Promise(Exports(pkg)))>>,
      <<Factory(Promise(Fn(Exports(pkg))))>>,
      <<Factory(Undefined)>>,
      <<Factory(Rejected)>>,
      <<Factory(Exports(pkg)), Factory(Obj("other"))>>,
      <<Factory(Obj("other")), Factory(Exports(pkg))>>,
      <<NotAFactory, Factory(Exports(pkg))>> }

VariedPkgs == {KernelPkg, "react", SettingsPkg}

Registries ==
    {FullRegistry}
      \cup {Without(FullRegistry, pkg) : pkg \in VariedPkgs}
      \cup UNION {{With(FullRegistry, pkg, vs) : vs \in VersionLists(pkg)} :
                    pkg \in VariedPkgs}

NoScope == [none |-> <<>>]

GlobalScopes == {NoScope, FullRegistry, Without(FullRegistry, "react")}

\* `await result`: a promise settles to what it (transitively) holds
RECURSIVE await(_)
await(v) == IF v.kind = "promise" THEN await(v.of) ELSE v

\* importShared(pkg) on the scope in use; [kind "ok", value] or [kind "throw"]
Resolved(v) == [kind |-> "ok", value |-> v, err |-> ""]
Failed(e) == [kind |-> "throw", value |-> Undefined, err |-> e]

\* importShared, taking the last enumerated version instead of the first
importSharedLastVersion(scope, pkg) ==
    IF scope = NoScope THEN Failed("RegistryUnavailable")
    ELSE IF pkg \notin DOMAIN scope THEN Failed("PackageNotFound")
    ELSE LET versions == scope[pkg]
         IN  IF Len(versions) = 0 THEN Failed("NoVersionAvailable")
             ELSE LET factory == versions[Len(versions)].get
                  IN  IF factory.kind # "function" THEN Failed("NoFactory")
                      ELSE LET result == factory.returns
                           IN  IF result.kind = "rejected" THEN Failed("FactoryRejected")
                               ELSE LET awaited == await(result)
                                    IN  IF awaited.kind = "fn"
                                        THEN Resolved(awaited.of)
                                        ELSE Resolved(awaited)

\* importShared, reading the versions with optional chaining and no check
importSharedUnchecked(scope, pkg) ==
    IF scope = NoScope THEN Failed("RegistryUnavailable")
    ELSE IF pkg \notin DOMAIN scope THEN Resolved(Undefined)
    ELSE LET versions == scope[pkg]
         IN  IF Len(versions) = 0 THEN Failed("NoVersionAvailable")
             ELSE LET factory == versions[1].get
                  IN  IF factory.kind # "function" THEN Failed("NoFactory")
                      ELSE LET result == factory.returns
                           IN  IF result.kind = "rejected" THEN Failed("FactoryRejected")
                               ELSE LET awaited == await(result)
                                    IN  IF awaited.kind = "fn"
                                        THEN Resolved(awaited.of)
                                        ELSE Resolved(awaited)

\* importShared, without the call that unwraps a module wrapper function
importSharedNoCall(scope, pkg) ==
    IF scope = NoScope THEN Failed("RegistryUnavailable")
    ELSE IF pkg \notin DOMAIN scope THEN Failed("PackageNotFound")
    ELSE LET versions == scope[pkg]
         IN  IF Len(versions) = 0 THEN Failed("NoVersionAvailable")
             ELSE LET factory == versions[1].get
                  IN  IF factory.kind # "function" THEN Failed("NoFactory")
                      ELSE LET result == factory.returns
                           IN  IF result.kind = "rejected" THEN Failed("FactoryRejected")
                               ELSE Resolved(await(result))

\* importShared, going on to the next version when one has no factory
RECURSIVE importSharedFallsBack(_, _)
importSharedFallsBack(scope, pkg) ==
    IF scope = NoScope THEN Failed("RegistryUnavailable")
    ELSE IF pkg \notin DOMAIN scope THEN Failed("PackageNotFound")
    ELSE LET versions == scope[pkg]
         IN  IF Len(versions) = 0 THEN Failed("NoVersionAvailable")
             ELSE LET factory == versions[1].get
                  IN  IF factory.kind # "function"
                      THEN IF Len(versions) = 1 THEN Failed("NoFactory")
                           ELSE importSharedFallsBack(
                                    [scope EXCEPT ![pkg] = Tail(versions)], pkg)
                      ELSE LET result == factory.returns
                           IN  IF result.kind = "rejected" THEN Failed("FactoryRejected")
                               ELSE LET awaited == await(result)
                                    IN  IF awaited.kind = "fn"
                                        THEN Resolved(awaited.of)
                                        ELSE Resolved(awaited)

importSharedFrom(scope, pkg) ==
    IF scope = NoScope THEN Failed("RegistryUnavailable")
    ELSE IF pkg \notin DOMAIN scope THEN Failed("PackageNotFound")
    ELSE LET versions == scope[pkg]
         IN  IF Len(versions) = 0 THEN Failed("NoVersionAvailable")
             ELSE LET factory == versions[1].get
                  IN  IF factory.kind # "function" THEN Failed("NoFactory")
                      ELSE LET result == factory.returns
                           IN  IF result.kind = "rejected" THEN Failed("FactoryRejected")
                               ELSE LET awaited == await(result)
                                    IN  IF awaited.kind = "fn"
                                        THEN Resolved(awaited.of)
                                        ELSE Resolved(awaited)

\* the scope importShared uses: the stored one, else the global fallback
scopeInUse == IF sharedScope # NoScope THEN sharedScope ELSE globalScope

\* the first version of pkg in scope yields the exports of pkg, possibly
\* wrapped in a promise, in a function, or in a promise of a function
Supplies(scope, pkg) ==
    /\ scope # NoScope
    /\ pkg \in DOMAIN scope
    /\ Len(scope[pkg]) >= 1
    /\ scope[pkg][1] \in
          { Factory(Exports(pkg)), Factory(Fn(Exports(pkg))),
            Factory(Promise(Exports(pkg))), Factory(Promise(Fn(Exports(pkg)))) }

importShared(pkg) == importSharedFrom(scopeInUse, pkg)

(***************************************************************************)
(* Container: init, get and the thunk get returns                          *)
(***************************************************************************)
ModuleIds == {"./index", "./extension", "./other"}

NoImport == [pkg |-> "", scope |-> NoScope, outcome |-> Failed("")]

\* supplied: every required import made so far was asked of a scope whose
\* first version of the package yields the package's exports
NoThunk ==
    [pc |-> "none", module |-> "", step |-> 0, BaseKernel |-> "undefined",
     IKernelSpecs |-> "undefined", optional |-> <<>>, err |-> "",
     last |-> NoImport, supplied |-> TRUE, result |-> Undefined]

PluginId == "@wiki3-ai/webllm-chat-kernel:plugin"

PluginDescriptor(requires, optional) ==
    [id |-> PluginId, autoStart |-> TRUE, requires |-> requires,
     optional |-> optional]

moduleExports(plugins) == [__esModule |-> TRUE, default |-> plugins]

\* value.name for an imported value
Member(value, pkg, name) ==
    IF value = Exports(pkg) THEN name ELSE "undefined"

\* init, keeping the scope already stored (the first call wins)
ContainerInitFirstWins(scope) ==
    /\ plugin = "none"
    /\ sharedScope' = IF sharedScope = NoScope THEN scope ELSE sharedScope
    /\ lastInit' = scope
    /\ sharedScope' # sharedScope \/ lastInit' # lastInit
    /\ UNCHANGED <<globalScope, thunk, kernelVars, settingsVars>>

\* container.init(scope); the host calls it while it loads the extension
ContainerInit(scope) ==
    /\ plugin = "none"
    /\ sharedScope' = scope
    /\ lastInit' = scope
    /\ sharedScope' # sharedScope \/ lastInit' # lastInit
    /\ UNCHANGED <<globalScope, thunk, kernelVars, settingsVars>>

\* container.get(module)
Get(module) ==
    /\ plugin = "none"
    /\ thunk.pc \in {"none", "rejected"}
    /\ thunk' = IF module = "./index" \/ module = "./extension"
                THEN [NoThunk EXCEPT !.pc = "thunk", !.module = module]
                ELSE [NoThunk EXCEPT !.pc = "rejected", !.module = module,
                                     !.err = "UnknownModule"]
    /\ UNCHANGED <<sharedScope, globalScope, lastInit, kernelVars, settingsVars>>

\* the host invokes the thunk
InvokeThunk ==
    /\ thunk.pc = "thunk"
    /\ thunk' = [thunk EXCEPT !.pc = "importing", !.step = 1]
    /\ UNCHANGED <<sharedScope, globalScope, lastInit, kernelVars, settingsVars>>

\* importShared adopts the global scope when none is stored
adoptScope == sharedScope' = scopeInUse

\* the required imports, with a failed import caught and skipped
ImportRequiredSwallows ==
    /\ thunk.pc = "importing"
    /\ thunk.step \in DOMAIN RequiredPkgs
    /\ LET pkg == RequiredPkgs[thunk.step]
           r == importShared(pkg)
           t == [thunk EXCEPT !.last = [pkg |-> pkg, scope |-> scopeInUse,
                                        outcome |-> r],
                              !.supplied = thunk.supplied /\ Supplies(scopeInUse, pkg)]
       IN  thunk' =
             IF r.kind = "throw"
             THEN [t EXCEPT !.step = thunk.step + 1]
             ELSE IF pkg # "react" /\ r.value = Undefined
             THEN [t EXCEPT !.pc = "failed", !.err = "TypeError"]
             ELSE IF pkg = KernelPkg
             THEN [t EXCEPT !.step = thunk.step + 1,
                            !.BaseKernel = Member(r.value, pkg, "BaseKernel"),
                            !.IKernelSpecs = Member(r.value, pkg, "IKernelSpecs")]
             ELSE [t EXCEPT !.step = thunk.step + 1]
    /\ adoptScope
    /\ UNCHANGED <<globalScope, lastInit, kernelVars, settingsVars>>

\* `const {...} = await importShared(RequiredPkgs[step])`
ImportRequired ==
    /\ thunk.pc = "importing"
    /\ thunk.step \in DOMAIN RequiredPkgs
    /\ LET pkg == RequiredPkgs[thunk.step]
           r == importShared(pkg)
           t == [thunk EXCEPT !.last = [pkg |-> pkg, scope |-> scopeInUse,
                                        outcome |-> r],
                              !.supplied = thunk.supplied /\ Supplies(scopeInUse, pkg)]
       IN  thunk' =
             IF r.kind = "throw"
             THEN [t EXCEPT !.pc = "failed", !.err = r.err]
             ELSE IF pkg # "react" /\ r.value = Undefined
             THEN [t EXCEPT !.pc = "failed", !.err = "TypeError"]
             ELSE IF pkg = KernelPkg
             THEN [t EXCEPT !.step = thunk.step + 1,
                            !.BaseKernel = Member(r.value, pkg, "BaseKernel"),
                            !.IKernelSpecs = Member(r.value, pkg, "IKernelSpecs")]
             ELSE [t EXCEPT !.step = thunk.step + 1]
    /\ adoptScope
    /\ UNCHANGED <<globalScope, lastInit, kernelVars, settingsVars>>

\* the class definitions, the optional settings import, and the return
FinishThunk ==
    /\ thunk.pc = "importing"
    /\ thunk.step = Len(RequiredPkgs) + 1
    /\ IF thunk.BaseKernel = "undefined"
       THEN /\ thunk' = [thunk EXCEPT !.pc = "failed", !.err = "TypeError"]
            /\ UNCHANGED <<sharedScope, plugin>>
       ELSE LET r == importShared(SettingsPkg)
                ISettingRegistry ==
                    IF r.kind = "throw" THEN "undefined"
                    ELSE Member(r.value, SettingsPkg, "ISettingRegistry")
                optional == IF ISettingRegistry = "undefined" THEN <<>>
                            ELSE <<ISettingRegistry>>
            IN  /\ thunk' =
                     [thunk EXCEPT
                        !.pc = "returned",
                        !.optional = optional,
                        !.last = [pkg |-> SettingsPkg, scope |-> scopeInUse,
                                  outcome |-> r],
                        !.result = moduleExports(
                            <<PluginDescriptor(<<thunk.IKernelSpecs>>, optional)>>)]
                /\ adoptScope
                /\ plugin' = "loaded"
    /\ UNCHANGED <<globalScope, lastInit, kernelVars, settingsDefaultModel,
                   settingsConnected, defaultModelSetting>>

(***************************************************************************)
(* Specifications                                                          *)
(***************************************************************************)
\* Init: the module has been evaluated; nothing has been called
Init ==
    /\ chat = NewChat
    /\ handles = 0
    /\ settingsDefaultModel = Null
    /\ settingsConnected = FALSE
    /\ defaultModelSetting = ""
    /\ plugin = "none"
    /\ shutdowns = FALSE
    /\ lastReply = NoReply
    /\ req = [r \in Slots |-> IdleReq]
    /\ sharedScope = NoScope
    /\ globalScope \in GlobalScopes
    /\ lastInit = NoScope
    /\ thunk = NoThunk

NextFed ==
    \/ \E scope \in Registries : ContainerInit(scope)
    \/ \E module \in ModuleIds : Get(module)
    \/ InvokeThunk
    \/ ImportRequired
    \/ FinishThunk
    \/ \E supplied, loadOk \in BOOLEAN, model \in SettingValues,
          kernelspecs \in {"ok", "missing", "throws"} :
            Activate(supplied, loadOk, model, kernelspecs)
    \/ \E model \in SettingValues : SettingsChanged(model)

SpecFed == Init /\ [][NextFed]_vars

\* InitKernel: the thunk has returned the plugin descriptor under the full
\* registry, and a kernel instance has been constructed for the session
LoadedThunk(optional) ==
    [NoThunk EXCEPT
       !.pc = "returned", !.module = "./extension",
       !.step = Len(RequiredPkgs) + 1,
       !.BaseKernel = "BaseKernel", !.IKernelSpecs = "IKernelSpecs",
       !.optional = optional,
       !.last = [pkg |-> SettingsPkg, scope |-> FullRegistry,
                 outcome |-> importSharedFrom(
                     IF optional = <<>> THEN Without(FullRegistry, SettingsPkg)
                     ELSE FullRegistry, SettingsPkg)],
       !.result = moduleExports(<<PluginDescriptor(<<"IKernelSpecs">>, optional)>>)]

InitKernel ==
    /\ chat = NewChat
    /\ handles = 0
    /\ settingsDefaultModel = Null
    /\ settingsConnected = FALSE
    /\ defaultModelSetting = ""
    /\ plugin = "loaded"
    /\ shutdowns = FALSE
    /\ lastReply = NoReply
    /\ req = [r \in Slots |-> IdleReq]
    /\ sharedScope = FullRegistry
    /\ globalScope = NoScope
    /\ lastInit = FullRegistry
    /\ thunk = LoadedThunk(<<"ISettingRegistry">>)

Next ==
    \/ \E supplied, loadOk \in BOOLEAN, model \in SettingValues,
          kernelspecs \in {"ok", "missing", "throws"} :
            Activate(supplied, loadOk, model, kernelspecs)
    \/ \E model \in SettingValues : SettingsChanged(model)
    \/ \E r \in Slots, code \in Codes, ctorOk \in BOOLEAN :
            ExecuteRequest(r, code, ctorOk)
    \/ \E r \in Slots, a \in Availabilities,
          streamErr \in ExternalFailures \cup {NoError} :
            AvailabilityResolves(r, a, streamErr)
    \/ \E r \in Slots, err \in ExternalFailures : AvailabilityRejects(r, err)
    \/ \E r \in Slots, streamErr \in ExternalFailures \cup {NoError} :
            DownloadResolves(r, streamErr)
    \/ \E r \in Slots, err \in ExternalFailures : DownloadRejects(r, err)
    \/ \E r \in Slots, chunk \in Fragments : StreamYields(r, chunk)
    \/ \E r \in Slots : StreamEnds(r)
    \/ \E r \in Slots, err \in ExternalFailures : StreamFails(r, err)
    \/ ShutdownRequest

Spec == InitKernel /\ [][Next]_vars

(***************************************************************************)
(* The interpreter's input space: every code of up to MaxWords words over  *)
(* the words of the command language, with one kind of gap between words   *)
(* and optional whitespace around, run as one request on a new or an       *)
(* initialized session.                                                    *)
(***************************************************************************)
Words == {"%ai", "model", "models", "help", OtherModel}
Gaps == {<<" ">>, <<"\t", " ">>}
Leads == {<<>>, <<" ">>}
Trails == {<<>>, <<"\n">>}

RECURSIVE joinWords(_, _)
joinWords(words, gap) ==
    IF words = <<>> THEN <<>>
    ELSE IF Len(words) = 1 THEN words
    ELSE <<Head(words)>> \o gap \o joinWords(Tail(words), gap)

WordLists == UNION {[1..n -> Words] : n \in 0..MaxWords}

WordCodes ==
    { lead \o joinWords(words, gap) \o trail :
        lead \in Leads, words \in WordLists, gap \in Gaps, trail \in Trails }

ReadyChat ==
    [modelName |-> DEFAULT_WEBLLM_MODEL,
     model |-> webLLM(DEFAULT_WEBLLM_MODEL, 1), initialized |-> TRUE]

InitSession ==
    /\ \/ chat = NewChat /\ handles = 0
       \/ chat = ReadyChat /\ handles = 1
    /\ settingsDefaultModel = Null
    /\ settingsConnected = FALSE
    /\ defaultModelSetting = ""
    /\ plugin = "registered"
    /\ shutdowns = FALSE
    /\ lastReply = NoReply
    /\ req = [r \in Slots |-> IdleReq]
    /\ sharedScope = FullRegistry
    /\ globalScope = NoScope
    /\ lastInit = FullRegistry
    /\ thunk = LoadedThunk(<<>>)

\* executeRequest(code) as the first request of the session
Interpret(r) ==
    /\ req[r].pc = "idle"
    /\ \E code \in WordCodes, ctorOk \in BOOLEAN : ExecuteRequest(r, code, ctorOk)

NextMagic == \E r \in Slots : Interpret(r)

SpecMagic == InitSession /\ [][NextMagic]_vars

(***************************************************************************)
(* Requests under fair settling: the availability query, the download and  *)
(* the model stream each settle in the end (the stream may yield fragments *)
(* first).  Nothing else in the kernel ends a request.                     *)
(***************************************************************************)
Settles ==
    \E r \in Slots :
        \/ \E a \in Availabilities, streamErr \in ExternalFailures \cup {NoError} :
                AvailabilityResolves(r, a, streamErr)
        \/ \E err \in ExternalFailures : AvailabilityRejects(r, err)
        \/ \E streamErr \in ExternalFailures \cup {NoError} :
                DownloadResolves(r, streamErr)
        \/ \E err \in ExternalFailures : DownloadRejects(r, err)
        \/ \E chunk \in Fragments : StreamYields(r, chunk)
        \/ StreamEnds(r)
        \/ \E err \in ExternalFailures : StreamFails(r, err)

NextLive ==
    \/ \E r \in Slots, code \in Codes, ctorOk \in BOOLEAN :
            ExecuteRequest(r, code, ctorOk)
    \/ Settles

SpecLive == InitSession /\ [][NextLive]_vars /\ WF_vars(Settles)

(***************************************************************************)
(* Concurrent prompts: the host issues executeRequest calls without        *)
(* waiting for the earlier ones, so two run interleaved at their awaits on *)
(* one session that starts uninitialized.                                  *)
(***************************************************************************)
ConcurrentSlots == {1, 2}
ConcurrentPrompts == {<<"hello">>, <<>>}

InitConcurrent ==
    /\ chat = NewChat
    /\ handles = 0
    /\ settingsDefaultModel = Null
    /\ settingsConnected = FALSE
    /\ defaultModelSetting = ""
    /\ plugin = "registered"
    /\ shutdowns = FALSE
    /\ lastReply = NoReply
    /\ req = [r \in ConcurrentSlots |-> IdleReq]
    /\ sharedScope = FullRegistry
    /\ globalScope = NoScope
    /\ lastInit = FullRegistry
    /\ thunk = LoadedThunk(<<>>)

NextConcurrent ==
    \E r \in ConcurrentSlots :
        \/ \E code \in ConcurrentPrompts, ctorOk \in BOOLEAN :
                ExecuteRequest(r, code, ctorOk)
        \/ \E a \in Availabilities : AvailabilityResolves(r, a, NoError)
        \/ AvailabilityRejects(r, ThrownNull)
        \/ DownloadResolves(r, NoError)
        \/ DownloadRejects(r, Error(<<"runtime failure">>))
        \/ StreamYields(r, "He")
        \/ StreamEnds(r)
        \/ StreamFails(r, Error(<<"runtime failure">>))

SpecConcurrent == InitConcurrent /\ [][NextConcurrent]_vars

(***************************************************************************)
(* The requests other than execute, served in any order on a session that  *)
(* is new, ready, or left by a failed construction, with no request, a     *)
(* streaming one or a finished one in the slot.                            *)
(***************************************************************************)
FailedChat ==
    [modelName |-> DEFAULT_WEBLLM_MODEL, model |-> NoHandle, initialized |-> FALSE]

StreamingReq ==
    LET q0 == executeHead(ReadyChat, <<"hello">>, 2, TRUE).req
        q1 == startStream([q0 EXCEPT !.availability = "available"], ReadyChat, NoError)
    IN  consume(q1, "He")

InitProtocol ==
    /\ \/ chat = NewChat /\ handles = 0 /\ req = [r \in Slots |-> IdleReq]
       \/ chat = FailedChat /\ handles = 0 /\ req = [r \in Slots |-> IdleReq]
       \/ /\ chat = ReadyChat
          /\ handles = 1
          /\ req \in [Slots -> {IdleReq, StreamingReq, sendReturns(StreamingReq)}]
    /\ settingsDefaultModel = Null
    /\ settingsConnected = FALSE
    /\ defaultModelSetting = ""
    /\ plugin = "registered"
    /\ shutdowns = FALSE
    /\ lastReply = NoReply
    /\ sharedScope = FullRegistry
    /\ globalScope = NoScope
    /\ lastInit = FullRegistry
    /\ thunk = LoadedThunk(<<>>)

NextProtocol ==
    \/ \E request \in FixedRequests \cup {"completeRequest"}, content \in Contents :
            ProtocolRequest(request, content)
    \/ ShutdownRequest

SpecProtocol == InitProtocol /\ [][NextProtocol]_vars

(***************************************************************************)
(* Properties                                                              *)
(***************************************************************************)
\* slot r's request record changes in this step
Touched(r) == req'[r] # req[r]

\* this step is the synchronous head of a new executeRequest(code) in slot r
Starts(r, code) ==
    /\ req[r].pc \in {"idle", "done"}
    /\ Touched(r)
    /\ req'[r].code = code

ErrorEvents(out) == {i \in DOMAIN out : out[i].type = "error"}
StreamEvents(out) == {i \in DOMAIN out : out[i].type = "stream"}

\* C1: when send has resolved, onChunk was invoked once per fragment the
\* stream yielded, in stream order, and the value send returned is the
\* concatenation of the fragments; while send is pending the onChunk calls
\* made so far are the fragments yielded so far.  No state has an onChunk
\* call beyond the yielded fragments, so none happens after send resolves.
C1_SendStreamsInOrder ==
    \A r \in Slots :
        /\ req[r].chunks = req[r].yielded
        /\ req[r].send = "resolved" =>
             /\ req[r].pc = "done"
             /\ req[r].sendValue = ConcatAll(req[r].yielded)
             /\ req[r].sendValue = ConcatAll(req[r].chunks)

C1_Witness ==
    \E r \in Slots :
        /\ req[r].send = "resolved"
        /\ req[r].yielded = <<"He", "">>
        /\ req[r].chunks = <<"He", "">>
        /\ req[r].sendValue = "He"

\* C2: a request in which something was thrown (by a magic command, by model
\* initialization, by the availability check, the download or the stream) has
\* returned: its result is the error result whose evalue is the thrown
\* value's message, and exactly one error event, equal to it, was emitted,
\* as the last event; a rejected send always ends this way.
C2_FailuresBecomeErrorResults ==
    \A r \in Slots :
        LET q == req[r]
            message == IF q.thrown.kind = "Error" THEN q.thrown.message
                       ELSE <<"null">>
        IN  /\ q.send = "rejected" => q.thrown # NoError
            /\ q.thrown # NoError =>
                 /\ q.pc = "done"
                 /\ q.result = [status |-> "error", ename |-> "Error",
                                evalue |-> message, traceback |-> <<>>]
                 /\ ErrorEvents(q.out) = {Len(q.out)}
                 /\ q.out[Len(q.out)] =
                      [type |-> "error", ename |-> "Error",
                       evalue |-> message, traceback |-> <<>>]
            /\ q.thrown = NoError => ErrorEvents(q.out) = {}

C2_Witness ==
    \E r \in Slots :
        /\ req[r].send = "rejected"
        /\ req[r].yielded # <<>>
        /\ req[r].thrown = Error(<<"runtime failure">>)
        /\ req[r].result.status = "error"

\* C3: "%ai model C", C not in the catalog, fails with the invalid-model
\* message followed by the hint to list models, and leaves modelName, the
\* handle and the initialized flag as they were.
UnknownModelCode == <<"%ai", " ", "model", " ", UnknownModel>>

C3_InvalidModelLeavesSession ==
    [][\A r \in Slots :
         Starts(r, UnknownModelCode) =>
           /\ chat' = chat
           /\ handles' = handles
           /\ req'[r].pc = "done"
           /\ req'[r].result.status = "error"
           /\ req'[r].result.evalue =
                <<"Invalid model: ", UnknownModel, ListHint>>]_vars

C3_Witness ==
    \E r \in Slots :
        /\ req[r].code = UnknownModelCode
        /\ req[r].result.status = "error"
        /\ Contains(req[r].result.evalue, ListHint)
        /\ chat.initialized
        /\ chat.modelName = OtherModel

\* C4: code that trims to "%ai", "%ai help", "%ai model" or "%ai models"
\* returns ok with exactly one event, a stdout stream event, without calling
\* send, constructing a handle or changing modelName, model or initialized.
InfoCodes ==
    { <<"%ai">>, <<"%ai", " ", "help">>, <<"%ai", " ", "model">>,
      <<"%ai", " ", "models">>, <<" ", "%ai", " ", "help", "\n">>,
      <<"\n", "%ai", " ", "model", " ">> }

C4_InfoMagicsLeaveModel ==
    [][\A r \in Slots : \A code \in InfoCodes :
         Starts(r, code) =>
           /\ chat' = chat
           /\ handles' = handles
           /\ req'[r].pc = "done"
           /\ req'[r].result.status = "ok"
           /\ Len(req'[r].out) = 1
           /\ req'[r].out[1].type = "stream"
           /\ req'[r].out[1].name = "stdout"
           /\ req'[r].send = "none"
           /\ req'[r].calls = <<>>]_vars

C4_Witness ==
    \E r \in Slots :
        /\ req[r].code = <<" ", "%ai", " ", "help", "\n">>
        /\ req[r].result.status = "ok"
        /\ req[r].send = "none"
        /\ ~chat.initialized

\* this step is a successful "%ai model <name>" for the catalog name `name`
SetModelCodes(name) ==
    IF name = OtherModel
    THEN { <<"%ai", " ", "model", " ", OtherModel>>,
           <<"%ai", "\t", "model", " ", " ", OtherModel, "\n">> }
    ELSE { <<"%ai", " ", "model", " ", name>> }

Switches(r, name) ==
    /\ \E code \in SetModelCodes(name) : Starts(r, code)
    /\ req'[r].result.status = "ok"

\* the text of the single stdout event of a magic request
MagicText(q) == q.out[1].text

\* C5 as stated: on a session that was never initialized, the confirmation
\* of setModel(OtherModel) contains "changed".
C5_NewSessionSetModelSaysChanged ==
    [][\A r \in Slots :
         (Switches(r, OtherModel) /\ ~chat.initialized /\ handles = 0) =>
            Contains(MagicText(req'[r]), "changed")]_vars

\* C5 amended: on a session that was never initialized, the confirmation of
\* setModel(OtherModel) contains "set" and not "changed", and names the model.
C5_NewSessionSetModelSaysSet ==
    [][\A r \in Slots :
         (Switches(r, OtherModel) /\ ~chat.initialized /\ handles = 0) =>
            /\ Contains(MagicText(req'[r]), "set")
            /\ ~Contains(MagicText(req'[r]), "changed")
            /\ Contains(MagicText(req'[r]), OtherModel)]_vars

C5_Witness ==
    \E r \in Slots :
        /\ req[r].code = <<"%ai", " ", "model", " ", OtherModel>>
        /\ req[r].result.status = "ok"
        /\ handles = 1
        /\ chat.model = [name |-> OtherModel, id |-> 1]
        /\ Contains(MagicText(req[r]), "set")

\* C6: a successful "%ai model <name>" reports "set" when the session was not
\* initialized just before the command, and "changed" when it was.
C6_SetVersusChanged ==
    [][\A r \in Slots : \A name \in {OtherModel, DEFAULT_WEBLLM_MODEL} :
         Switches(r, name) =>
            /\ Contains(MagicText(req'[r]), "set") <=> ~chat.initialized
            /\ Contains(MagicText(req'[r]), "changed") <=> chat.initialized
            /\ chat'.initialized]_vars

C6_Witness ==
    \E r \in Slots :
        /\ req[r].code \in SetModelCodes(OtherModel)
        /\ req[r].result.status = "ok"
        /\ Contains(MagicText(req[r]), "changed")
        /\ chat.model.id = 2

\* C7: the listing's status line says "not yet initialized" and gives the
\* resolved default (the settings override when set, else the hardcoded
\* default) exactly when the session is not initialized; otherwise it names
\* the session's current model.
ListingCodes ==
    { <<"%ai", " ", "model">>, <<"%ai", " ", "models">>,
      <<"\n", "%ai", " ", "model", " ">> }

ResolvedDefault ==
    IF settingsDefaultModel = Null THEN DEFAULT_WEBLLM_MODEL
                                   ELSE settingsDefaultModel

C7_StatusLine ==
    [][\A r \in Slots : \A code \in ListingCodes :
         Starts(r, code) =>
            LET text == MagicText(req'[r])
            IN  /\ Contains(text, "not yet initialized") <=> ~chat.initialized
                /\ ~chat.initialized =>
                      SubSeq(text, 3, 4) = <<". Default: ", ResolvedDefault>>
                /\ chat.initialized =>
                      SubSeq(text, 1, 2) = <<"Current model: ", chat.modelName>>]_vars

C7_Witness ==
    \E r \in Slots :
        /\ req[r].code = <<"%ai", " ", "model">>
        /\ req[r].result.status = "ok"
        /\ SubSeq(MagicText(req[r]), 1, 2) =
              <<"Current model: ", DEFAULT_WEBLLM_MODEL>>
        /\ chat.model = [name |-> DEFAULT_WEBLLM_MODEL, id |-> 1]
        /\ settingsDefaultModel = Null

\* C8: a step of send (its head in executeRequest or a later continuation)
\* leaves modelName, the handle and initialized alone on an initialized
\* session; on an uninitialized one its head initializes with the resolved
\* default; every call send makes goes to the session's handle, so after a
\* switch to OtherModel a send's calls go to the handle bound to OtherModel.
SendStep(r) == Touched(r) /\ req'[r].send # "none"

C8_SendInitializesLazily ==
    [][\A r \in Slots :
         SendStep(r) =>
            /\ chat.initialized => chat' = chat /\ handles' = handles
            /\ ~chat.initialized =>
                 /\ req'[r].lazyInit
                 /\ chat'.modelName = ResolvedDefault
                 /\ chat'.initialized =>
                      chat'.model = [name |-> ResolvedDefault, id |-> handles + 1]
            /\ Len(req'[r].calls) > Len(req[r].calls) =>
                  req'[r].calls[Len(req'[r].calls)].handle = chat'.model
            /\ (chat.initialized /\ chat.model.name = OtherModel) =>
                  \A i \in DOMAIN req'[r].calls :
                      req'[r].calls[i].handle.name = OtherModel]_vars

C8_Witness ==
    \E r \in Slots :
        /\ req[r].send = "resolved"
        /\ ~req[r].lazyInit
        /\ Len(req[r].calls) = 3
        /\ \A i \in DOMAIN req[r].calls : req[r].calls[i].handle.name = OtherModel
        /\ chat.modelName = OtherModel
        /\ settingsDefaultModel = Null

\* C9: get("./index") and get("./extension") yield a thunk, and get with any
\* other moduleId fails with UnknownModule and yields none; when every scope
\* the thunk consulted supplied the required package asked of it, the thunk
\* does not fail, and the value it returns has __esModule = TRUE and a
\* default array of at least one plugin descriptor.
C9_GetYieldsPluginModule ==
    /\ thunk.pc # "none" =>
         (thunk.pc = "rejected" <=> thunk.module \notin {"./index", "./extension"})
    /\ thunk.pc = "rejected" =>
         thunk.err = "UnknownModule" /\ thunk.result = Undefined
    /\ thunk.supplied => thunk.pc # "failed"
    /\ thunk.pc = "returned" =>
         /\ thunk.result.__esModule = TRUE
         /\ Len(thunk.result.default) >= 1
         /\ thunk.result.default[1].id = PluginId
    /\ thunk.pc # "returned" => thunk.result = Undefined

C9_Witness ==
    /\ thunk.pc = "returned"
    /\ thunk.module = "./index"
    /\ thunk.supplied
    /\ thunk.result.__esModule = TRUE
    /\ Len(thunk.result.default) = 1
    /\ sharedScope = With(FullRegistry, KernelPkg,
                          <<Factory(Exports(KernelPkg)), Factory(Obj("other"))>>)

\* C10: an importShared call for a package that is not in the scope in use
\* fails with PackageNotFound; it never resolves (to undefined or anything).
C10_AbsentPackageFails ==
    (/\ thunk.last.pkg # ""
     /\ thunk.last.scope # NoScope
     /\ thunk.last.pkg \notin DOMAIN thunk.last.scope)
       => /\ thunk.last.outcome.kind = "throw"
          /\ thunk.last.outcome.err = "PackageNotFound"
          /\ thunk.last.pkg # SettingsPkg =>
                thunk.pc = "failed" /\ thunk.err = "PackageNotFound"

C10_Witness ==
    /\ thunk.last.pkg = "react"
    /\ thunk.last.scope = Without(FullRegistry, "react")
    /\ thunk.last.outcome.err = "PackageNotFound"
    /\ thunk.pc = "failed"

\* C11: when the first version's factory of the package asked for returns a
\* plain value E, a function returning E, a promise of E, or a promise of a
\* function returning E, importShared resolves to E itself in all four cases
\* (E the package's exports, another object, or undefined).
PlainValues(pkg) == {Exports(pkg), Obj("other"), Undefined}

Wrappings(E) ==
    {Factory(E), Factory(Fn(E)), Factory(Promise(E)), Factory(Promise(Fn(E)))}

C11_WrappingsNormalize ==
    LET l == thunk.last
    IN  (l.pkg # "" /\ l.scope # NoScope /\ l.pkg \in DOMAIN l.scope
           /\ Len(l.scope[l.pkg]) >= 1) =>
          \A E \in PlainValues(l.pkg) :
              l.scope[l.pkg][1] \in Wrappings(E) =>
                  /\ l.outcome.kind = "ok"
                  /\ l.outcome.value = E

C11_Witness ==
    /\ thunk.last.pkg = KernelPkg
    /\ thunk.last.scope =
          With(FullRegistry, KernelPkg, <<Factory(Promise(Fn(Exports(KernelPkg))))>>)
    /\ thunk.last.outcome = Resolved(Exports(KernelPkg))
    /\ thunk.step = 2

\* C12: every importShared call consults the scope passed to the latest init
\* call, whatever calls came before it; when init was never called it
\* consults (and adopts) the global fallback scope; it fails with
\* RegistryUnavailable exactly when init was never called and there is no
\* global fallback.
Imports == thunk'.last # thunk.last /\ thunk'.last.pkg # ""

C13_TerminatedAbsorbing ==
    [][/\ chat.initialized => chat'.initialized
       /\ shutdowns => chat' = chat]_vars

ImportFailed == thunk.last.pkg # "" /\ thunk.last.outcome.kind = "throw"

C15_EveryFailureAbortsThunk ==
    ImportFailed => thunk.pc = "failed" /\ thunk.result = Undefined

\* C15 (amended): a failed import of a required package fails the thunk with
\* that failure, no plugin descriptor is returned and the plugin is never
\* activated; a failed import of the optional settings registry package is
\* caught, and the thunk returns the descriptor without optional capabilities.
C15_RequiredFailureAbortsThunk ==
    /\ (ImportFailed /\ thunk.last.pkg # SettingsPkg) =>
          /\ thunk.pc = "failed"
          /\ thunk.err = thunk.last.outcome.err
          /\ thunk.result = Undefined
          /\ plugin = "none"
    /\ (ImportFailed /\ thunk.last.pkg = SettingsPkg) =>
          /\ thunk.pc = "returned"
          /\ thunk.result = moduleExports(
                <<PluginDescriptor(<<thunk.IKernelSpecs>>, <<>>)>>)

C15_Witness ==
    /\ thunk.last.pkg = "react"
    /\ thunk.last.outcome = Failed("PackageNotFound")
    /\ thunk.pc = "failed"
    /\ thunk.err = "PackageNotFound"

\* C16: for a prompt, the events emitted so far begin with one stdout stream
\* event per fragment the stream has yielded, in the order of arrival.  While
\* the request runs nothing else is emitted and no result exists.  When the
\* stream ends the result is ok and the events are exactly the fragment
\* events; when the request fails after k fragments the events are exactly the
\* k fragment events followed by the single error event, and the result is an
\* error result.
FragmentEvents(q) ==
    [i \in 1..Len(q.yielded) |-> StreamEvent(<<q.yielded[i]>>)]

C16_FragmentEventsInOrder ==
    \A r \in Slots :
        LET q == req[r]
        IN  q.send # "none" =>
              /\ SubSeq(q.out, 1, Len(q.yielded)) = FragmentEvents(q)
              /\ q.send = "pending" =>
                    /\ q.out = FragmentEvents(q)
                    /\ q.result = NoResult
              /\ q.send = "resolved" =>
                    /\ q.out = FragmentEvents(q)
                    /\ q.result = OkResult
              /\ q.send = "rejected" =>
                    /\ Len(q.out) = Len(q.yielded) + 1
                    /\ ErrorEvents(q.out) = {Len(q.yielded) + 1}
                    /\ q.result.status = "error"

C16_Witness ==
    \E r \in Slots :
        /\ req[r].send = "rejected"
        /\ req[r].yielded = <<"", "He">>
        /\ req[r].out = << StreamEvent(<<"">>), StreamEvent(<<"He">>),
                           ErrorEvent(<<"runtime failure">>) >>
        /\ req[r].result = ErrorResult(<<"runtime failure">>)

\* C17: the default that the next lazy initialization resolves is the one the
\* latest reading of the setting gave: the setting's model when it names
\* one, and the hardcoded default when the setting carries no override.
C17_LastSettingWins ==
    /\ isValidWebLLMModel(defaultModelSetting) =>
          getDefaultModel = defaultModelSetting
    /\ defaultModelSetting = "" => getDefaultModel = DEFAULT_WEBLLM_MODEL

\* C18: the step in which the availability query answers "unavailable" ends
\* the request with the error "Browser does not support WebLLM / WebGPU.":
\* the only call made on the model is the availability query (no download
\* step, no streaming request), onChunk was not invoked and no fragment was
\* emitted, and the session (modelName, handle, initialized) is left as it
\* was.  A prompt executed next on that session does not fail at once: it
\* reuses the session unchanged and queries availability again.
ModelUnavailable == Error(<<"Browser does not support WebLLM / WebGPU.">>)

C18_UnavailableFailsOnlyTheRequest ==
    [][\A r \in Slots :
         /\ (Touched(r) /\ req'[r].thrown = ModelUnavailable) =>
               /\ req[r].pc = "availability"
               /\ req'[r].pc = "done"
               /\ req'[r].send = "rejected"
               /\ req'[r].calls = <<Call("availability", chat.model)>>
               /\ req'[r].chunks = <<>>
               /\ req'[r].out = <<ErrorEvent(ModelUnavailable.message)>>
               /\ req'[r].result = ErrorResult(ModelUnavailable.message)
               /\ chat' = chat
               /\ handles' = handles
         /\ \A code \in PromptCodes :
               (req[r].thrown = ModelUnavailable /\ Starts(r, code)) =>
                  /\ chat' = chat
                  /\ req'[r].pc = "availability"
                  /\ req'[r].thrown = NoError
                  /\ req'[r].calls = <<Call("availability", chat.model)>>]_vars

C18_Witness ==
    \E r \in Slots :
        /\ req[r].thrown = ModelUnavailable
        /\ req[r].lazyInit
        /\ chat.initialized
        /\ chat.modelName = DEFAULT_WEBLLM_MODEL

\* C19: the calls a send makes on the model are, in this order, the
\* availability query, then the download step if and only if the answer was
\* "downloadable" or "downloading", then at most one streaming request.
\* Nothing is called before the availability answer is in; the streaming
\* request is issued only by the step that takes the answer (no download
\* needed) or by the completion of the download.  A step out of the download
\* either issues the streaming request or rejects the send with the calls as
\* they were, and a finished request makes no further call.
Ops(q) == [i \in DOMAIN q.calls |-> q.calls[i].op]

CallOrders ==
    { <<>>,
      <<"availability">>,
      <<"availability", "streamText">>,
      <<"availability", "createSessionWithProgress">>,
      <<"availability", "createSessionWithProgress", "streamText">> }

Downloads(q) == \E i \in DOMAIN q.calls : q.calls[i].op = "createSessionWithProgress"
StreamsText(q) == \E i \in DOMAIN q.calls : q.calls[i].op = "streamText"

C19_CallOrder ==
    [][\A r \in Slots :
         LET q == req[r]
             n == req'[r]
         IN  Touched(r) =>
               /\ Ops(n) \in CallOrders
               /\ n.availability = "" => Len(n.calls) <= 1
               /\ n.availability # "" =>
                     (Downloads(n) <=>
                         n.availability \in {"downloadable", "downloading"})
               /\ n.availability = "unavailable" => ~StreamsText(n)
               /\ (StreamsText(n) /\ ~StreamsText(q)) =>
                     /\ q.pc \in {"availability", "download"}
                     /\ q.pc = "availability" => n.availability = "available"
               /\ (n.pc = "stream" \/ n.yielded # <<>> \/ n.send = "resolved") =>
                     StreamsText(n)
               /\ q.pc = "download" =>
                     \/ Ops(n) = Append(Ops(q), "streamText")
                     \/ /\ n.calls = q.calls
                        /\ n.pc = "done"
                        /\ n.send = "rejected"
                        /\ n.result.status = "error"
               /\ q.pc \in {"stream", "done"} =>
                     \/ n.calls = q.calls
                     \/ q.pc = "done" /\ Len(n.calls) <= 1]_vars

C19_Witness ==
    \E r \in Slots :
        /\ req[r].send = "rejected"
        /\ Ops(req[r]) = <<"availability", "createSessionWithProgress">>
        /\ req[r].availability = "downloading"
        /\ req[r].thrown = Error(<<"runtime failure">>)
        /\ req[r].yielded = <<>>

\* C20: the text of "%ai model" / "%ai models" lists the first
\* min(20, catalog size) catalog entries, in catalog order, and holds the
\* ellipsis line only when the catalog has more than 20 entries.
InCatalog(piece) == \E i \in DOMAIN WEBLLM_MODELS : WEBLLM_MODELS[i] = piece

ListedModels(text) ==
    LET k == CHOOSE i \in DOMAIN text : text[i] = "):\n  "
    IN  SelectSeq(SubSeq(text, k + 1, Len(text)), InCatalog)

FirstOfCatalog ==
    SubSeq(WEBLLM_MODELS, 1,
           IF Len(WEBLLM_MODELS) < 20 THEN Len(WEBLLM_MODELS) ELSE 20)

C20_ListingEllipsisOnlyWhenCut ==
    [][\A r \in Slots : \A code \in ListingCodes :
         Starts(r, code) =>
            LET text == MagicText(req'[r])
            IN  /\ ListedModels(text) = FirstOfCatalog
                /\ Contains(text, "...") => Len(WEBLLM_MODELS) > 20]_vars

\* C21: a code is handled by the interpreter (a result or an error comes
\* back without send being called) only if its words are "%ai", "%ai help",
\* "%ai model", "%ai models" or "%ai model <one word>"; every other code,
\* the empty one, "%ai <other word>" and "%ai model" with two or more words
\* after it included, goes to send as a prompt.  The five forms written with
\* single spaces are handled, and send is called for none of them.
WordsOf(code) == SelectSeq(code, LAMBDA t : ~IsWs(t))

IsForm(w) ==
    \/ w \in { <<"%ai">>, <<"%ai", "help">>, <<"%ai", "model">>,
               <<"%ai", "models">> }
    \/ Len(w) = 3 /\ w[1] = "%ai" /\ w[2] = "model"

IsLiteralForm(trimmed) ==
    \/ trimmed \in { <<"%ai">>, <<"%ai", " ", "help">>, <<"%ai", " ", "model">>,
                     <<"%ai", " ", "models">> }
    \/ /\ Len(trimmed) = 5
       /\ SubSeq(trimmed, 1, 4) = <<"%ai", " ", "model", " ">>
       /\ ~IsWs(trimmed[5])

Handled(q) == q.pc = "done" /\ q.send = "none" /\ q.calls = <<>>
Delegated(q) == q.send \in {"pending", "rejected"} /\ q.out \in {<<>>, <<ErrorEvent(errMessage(q.thrown))>>}

C21_MagicRecognitionClosed ==
    \A r \in Slots :
        LET q == req[r]
        IN  q.pc # "idle" =>
              /\ Handled(q) \/ Delegated(q)
              /\ ~(Handled(q) /\ Delegated(q))
              /\ Handled(q) => IsForm(WordsOf(q.code))
              /\ ~IsForm(WordsOf(q.code)) => Delegated(q)
              /\ IsLiteralForm(trim(q.code)) => Handled(q)

C21_Witness ==
    \E r \in Slots :
        /\ req[r].code = <<"%ai", " ", "model", " ", OtherModel, " ", "help">>
        /\ req[r].pc = "availability"
        /\ req[r].send = "pending"
        /\ chat.modelName = DEFAULT_WEBLLM_MODEL

\* C22: a "%ai model <name>" request that succeeds leaves the session
\* initialized with modelName = name and a handle constructed by this
\* request (the next handle number, bound to name), whatever the session was
\* before, also when name was the current model already.  A prompt executed
\* after it finds the session ready: it does not initialize and leaves the
\* session as it is.
C22_SetModelReinitializes ==
    [][\A r \in Slots :
         /\ \A name \in {OtherModel, DEFAULT_WEBLLM_MODEL} :
              Switches(r, name) =>
                 /\ chat' = [modelName |-> name,
                             model |-> [name |-> name, id |-> handles + 1],
                             initialized |-> TRUE]
                 /\ handles' = handles + 1
                 /\ chat'.model # chat.model
         /\ \A code \in PromptCodes :
              (req[r].result.status = "ok" /\ modelMatch(trim(req[r].code)) # Null
                 /\ Starts(r, code)) =>
                 /\ ~req'[r].lazyInit
                 /\ chat' = chat
                 /\ handles' = handles]_vars

C22_Witness ==
    \E r \in Slots :
        /\ req[r].code = <<"%ai", " ", "model", " ", DEFAULT_WEBLLM_MODEL>>
        /\ req[r].result.status = "ok"
        /\ Contains(MagicText(req[r]), "changed")
        /\ chat = [modelName |-> DEFAULT_WEBLLM_MODEL,
                   model |-> [name |-> DEFAULT_WEBLLM_MODEL, id |-> 2],
                   initialized |-> TRUE]
        /\ handles = 2
        /\ settingsDefaultModel = Null

\* C23: a step that serves kernelInfoRequest, completeRequest,
\* inspectRequest, isCompleteRequest, commInfoRequest, historyRequest,
\* shutdownRequest, inputReply or a comm open/msg/close leaves modelName, the
\* handle and initialized as they were and emits nothing (the events of the
\* request in the slot stay as they are), whatever the session state;
\* shutdownRequest replies status ok with restart false and the handle stays.
Serves(request) == lastReply' # lastReply /\ lastReply'.request = request

C23_OtherRequestsLeaveSession ==
    [][\A request \in FixedRequests \cup {"completeRequest", "shutdownRequest"} :
         Serves(request) =>
            /\ chat' = chat
            /\ handles' = handles
            /\ req' = req
            /\ request = "shutdownRequest" =>
                  /\ lastReply'.reply = [status |-> "ok", restart |-> FALSE]
                  /\ chat'.model = chat.model
            /\ request \in VoidRequests => lastReply'.reply = Void]_vars

C23_Witness ==
    /\ lastReply = [request |-> "shutdownRequest",
                    reply |-> [status |-> "ok", restart |-> FALSE]]
    /\ chat = ReadyChat
    /\ \E r \in Slots : req[r] = StreamingReq

\* C24: for a package the consulted registry holds, importShared fails with
\* NoVersionAvailable when the package has no version; otherwise its outcome
\* is the one the first version in enumeration order gives, the same as if
\* the registry held that version alone: with versions (E, other) it yields
\* E, with (other, E) it yields other, and when the first version has no
\* factory it fails without turning to the second.
OnlyFirst(scope, pkg) == [scope EXCEPT ![pkg] = <<scope[pkg][1]>>]

C24_FirstVersionOnly ==
    LET l == thunk.last
    IN  (l.pkg # "" /\ l.scope # NoScope /\ l.pkg \in DOMAIN l.scope) =>
          LET vs == l.scope[l.pkg]
              E == Exports(l.pkg)
          IN  /\ Len(vs) = 0 <=>
                   (l.outcome.kind = "throw" /\ l.outcome.err = "NoVersionAvailable")
              /\ Len(vs) > 0 =>
                   l.outcome = importSharedFrom(OnlyFirst(l.scope, l.pkg), l.pkg)
              /\ vs = <<Factory(E), Factory(Obj("other"))>> =>
                   l.outcome = Resolved(E)
              /\ vs = <<Factory(Obj("other")), Factory(E)>> =>
                   l.outcome = Resolved(Obj("other"))
              /\ vs = <<NotAFactory, Factory(E)>> =>
                   l.outcome = Failed("NoFactory")

C24_Witness ==
    /\ thunk.last.pkg = "react"
    /\ thunk.last.scope =
          With(FullRegistry, "react",
               <<Factory(Obj("other")), Factory(Exports("react"))>>)
    /\ thunk.last.outcome = Resolved(Obj("other"))

\* C25: an activate call in which the settings were not loaded (the settings
\* registry could not be imported, so none can be supplied; none was
\* supplied; or its load failed) leaves the settings default unset, so the
\* resolved default is the hardcoded one, and with a working kernelspecs
\* service it registers the kernel all the same.
Activates == plugin = "loaded" /\ plugin' # "loaded"

C25_SettingsAbsenceTolerated ==
    [][Activates =>
         /\ thunk.optional = <<>> => ~settingsConnected'
         /\ ~settingsConnected' =>
               /\ settingsDefaultModel' = Null
               /\ getDefaultModel' = DEFAULT_WEBLLM_MODEL
         /\ \A supplied, loadOk \in BOOLEAN :
               (~(supplied /\ loadOk) /\ Activate(supplied, loadOk, "", "ok")) =>
                  plugin' = "registered"]_vars

C25_Witness ==
    /\ plugin = "registered"
    /\ thunk.last.pkg = SettingsPkg
    /\ thunk.last.outcome = Failed("PackageNotFound")
    /\ thunk.optional = <<>>
    /\ ~settingsConnected
    /\ settingsDefaultModel = Null

\* C26: when the availability query, the download and the stream settle in
\* the end, every request that has started returns: a pending request leads
\* to a finished one.  A request has a result exactly when it has finished,
\* the result is ok or error, and a request leaves the stream only by the
\* end of the stream (send resolves) or its failure (send is rejected):
\* nothing else finishes it.
Pending(r) == req[r].pc \in {"availability", "download", "stream"}
Finished(r) == req[r].pc = "done"

C26_RequestsReturn ==
    /\ [](\A r \in Slots :
            /\ Finished(r) <=> req[r].result # NoResult
            /\ Finished(r) => req[r].result.status \in {"ok", "error"}
            /\ Pending(r) => req[r].send = "pending")
    /\ [][\A r \in Slots :
            (req[r].pc = "stream" /\ req'[r].pc # "stream") =>
               /\ req'[r].pc = "done"
               /\ req'[r].send \in {"resolved", "rejected"}
               /\ req'[r].yielded = req[r].yielded]_vars
    /\ \A r \in Slots : Pending(r) ~> Finished(r)

C26_Witness ==
    \E r \in Slots :
        /\ Finished(r)
        /\ req[r].availability = "downloadable"
        /\ Len(req[r].yielded) = MaxFrags
        /\ req[r].result = OkResult

\* C27: with two prompts running interleaved on a session that started
\* uninitialized, one handle at most is ever constructed; once a call has
\* initialized the session no later call initializes again or changes the
\* session, whatever the other call is waiting for; and every call any
\* request makes on the model is made on that one handle.
BothInFlight ==
    \A r \in ConcurrentSlots : req[r].pc \in {"availability", "download", "stream"}

C27_OneLazyInitialization ==
    /\ [](/\ handles <= 1
          /\ chat.initialized =>
                /\ handles = 1
                /\ chat.model = [name |-> DEFAULT_WEBLLM_MODEL, id |-> 1]
          /\ \A r \in ConcurrentSlots : \A i \in DOMAIN req[r].calls :
                req[r].calls[i].handle = [name |-> DEFAULT_WEBLLM_MODEL, id |-> 1]
          /\ BothInFlight =>
                \E r \in ConcurrentSlots : ~req[r].lazyInit)
    /\ [][chat.initialized => chat' = chat /\ handles' = handles]_vars
    /\ [][\A r \in ConcurrentSlots :
            (req'[r] # req[r] /\ req[r].pc \in {"idle", "done"}) =>
               /\ req'[r].lazyInit <=> ~chat.initialized
               /\ (~chat.initialized /\ chat'.initialized) => handles' = 1]_vars

C27_Witness ==
    /\ BothInFlight
    /\ req[1].lazyInit
    /\ ~req[2].lazyInit
    /\ req[1].pc = "stream"
    /\ req[2].pc = "download"
    /\ handles = 1

\* C28: whatever the settings load and the change notifications delivered
\* (a catalog model, a name outside the catalog, nothing), the default that
\* getDefaultModel resolves is in the catalog, and no send has failed with
\* the invalid-model error of initializeModel.
InvalidModelError(name) ==
    Error(<<"Invalid model: ", name, ". Use %ai model to see available models.">>)

C28_ResolvedDefaultInCatalog ==
    /\ isValidWebLLMModel(getDefaultModel)
    /\ settingsDefaultModel # Null => isValidWebLLMModel(settingsDefaultModel)
    /\ \A r \in Slots :
          req[r].send # "none" =>
             /\ \A name \in SettingValues \cup {DEFAULT_WEBLLM_MODEL, Null} :
                   req[r].thrown # InvalidModelError(name)
             /\ req[r].lazyInit => isValidWebLLMModel(chat.modelName)

C28_Witness ==
    \E r \in Slots :
        /\ defaultModelSetting = UnknownModel
        /\ settingsDefaultModel = OtherModel
        /\ req[r].lazyInit
        /\ req[r].send = "resolved"
        /\ chat.modelName = OtherModel

====
